---- MODULE Spec2Model ----
\* Model of the C-arm market-intelligence pipeline: WebSearchClient
\* (utils/webSearch.py), GitHubModelsClient (utils/githubModels.py) behind
\* BaseAgent (agents/baseAgent.py), and the orchestrator's runPipeline
\* (carmResearchAgent.py).
EXTENDS Integers, Sequences, FiniteSets, TLC

\* ---------------------------------------------------------------- bounds
MaxQueries == 2
MaxHits == 4

\* ------------------------------------------------------- input universes
Categories == <<"catA", "catB">>
Keywords == <<"q1", "q2", "q3", "q4">>

\* What DDGS.news may hand back for one hit: a dict that may or may not
\* carry a "url" key, whose url may be empty, and whose other fields vary.
\* One aggregation runs against one of these provider catalogues.
Catalogues ==
    { { [title |-> "t1", url |-> "x"], [title |-> "t2", url |-> "x"] },
      { [title |-> "t1", url |-> "x"], [title |-> "t1", url |-> "y"], [title |-> "t1", url |-> "z"] },
      { [title |-> "t1", url |-> "x"], [title |-> "t1", url |-> ""] },
      { [title |-> "t1", url |-> "x"], [title |-> "t1"] } }

RECURSIVE SeqsUpTo(_, _)
SeqsUpTo(S, n) ==
    IF n = 0 THEN { <<>> }
    ELSE LET shorter == SeqsUpTo(S, n - 1)
         IN  shorter \cup { Append(s, e) : s \in { t \in shorter : Len(t) = n - 1 }, e \in S }

\* Topic mappings: a dict has unique keys and keeps insertion order, so a
\* topic set is a sequence of (category, keywords) pairs with distinct
\* categories.  Keywords are numbered in the order they will be searched.
RECURSIVE SumLen(_)
SumLen(ls) == IF ls = <<>> THEN 0 ELSE Head(ls) + SumLen(Tail(ls))

KeywordSlice(from, n) == [i \in 1..n |-> Keywords[from + i]]

TopicsOf(lens) ==
    [i \in 1..Len(lens) |->
        [category |-> Categories[i],
         keywords |-> KeywordSlice(SumLen(SubSeq(lens, 1, i - 1)), lens[i])]]

TopicSets ==
    { TopicsOf(lens) :
        lens \in { l \in SeqsUpTo(0..MaxQueries, Len(Categories)) : SumLen(l) <= MaxQueries } }

\* ----------------------------------------------------------------- state
VARIABLES
    topics,             \* argument of search_multiple_topics
    spc,                \* position inside search_multiple_topics
    ci,                 \* index of the category being iterated
    ki,                 \* index of the keyword being iterated
    articles,           \* rest of the list returned by search_news
    category_articles,  \* accumulator of the current category
    seen_links,         \* links already retained in the current category
    all_results,        \* result mapping built so far
    searchLog,          \* history: one record per search_news call
    catalogue,          \* the hits the provider can return in this run
    results_per_query   \* argument of search_multiple_topics

svars == <<topics, spc, ci, ki, articles, category_articles, seen_links,
           all_results, searchLog, catalogue, results_per_query>>

VARIABLES
    client,             \* GitHubModelsClient instance fields
    gpc,                \* position inside generate()
    attempt,            \* loop variable of `for attempt in range(maxRetries)`
    requests,           \* requests.post calls made by the current generate()
    sleeps,             \* time.sleep durations taken by the current generate()
    responses,          \* history: backend answers received by the current generate()
    outcome,            \* what GitHubModelsClient.generate returned or raised
    agentOutcome,       \* what BaseAgent.generate returned or raised to its caller
    genLog              \* history: finished generate() calls on this instance

gvars == <<client, gpc, attempt, requests, sleeps, responses, outcome,
           agentOutcome, genLog>>

VARIABLES
    config,             \* Config of the orchestrator
    saveLocal,          \* argument of runPipeline
    ppc,                \* position inside runPipeline
    results,            \* the result dict of runPipeline
    rawArticles,        \* what _gatherNews returned
    textReport,         \* the text report of this run
    htmlReport,         \* the HTML report of this run
    saved,              \* history: files written by _saveReports
    sent,               \* history: calls received by EmailSender.sendReport
    raisedAt            \* history: the stage whose exception reached the except clause

pvars == <<config, saveLocal, ppc, results, rawArticles, textReport, htmlReport,
           saved, sent, raisedAt>>

vars == <<svars, gvars, pvars>>

\* ------------------------------------------------------------ dict access
Get(d, k, default) == IF k \in DOMAIN d THEN d[k] ELSE default

Put(d, k, v) == [x \in DOMAIN d \cup {k} |-> IF x = k THEN v ELSE d[x]]

EmptyDict == [x \in {} |-> <<>>]

None == [kind |-> "None"]

\* ----------------------------------------------------------------- Config
EmailConfig(configured) ==
    [senderEmail     |-> IF configured THEN "sender@example.org" ELSE "",
     senderPassword  |-> IF configured THEN "app-password" ELSE "",
     recipientEmails |-> IF configured THEN <<"reader@example.org">> ELSE <<>>,
     smtpServer      |-> "smtp.gmail.com",
     smtpPort        |-> 587,
     subjectTemplate |-> "C-arm & Surgical Imaging Market Intelligence - {date}"]

SearchConfigs ==
    { [resultsPerQuery |-> 15, maxNewsAgeDays |-> 7],
      [resultsPerQuery |-> 1, maxNewsAgeDays |-> 1] }

Configs ==
    { [githubToken |-> token, search |-> search, email |-> EmailConfig(configured)] :
        token \in {"", "token"}, search \in SearchConfigs, configured \in BOOLEAN }

hasAiBackend_Always(cfg) == TRUE

hasAiBackend(cfg) == cfg.githubToken # ""

canSendEmail(cfg) ==
    /\ cfg.email.senderEmail # ""
    /\ cfg.email.senderPassword # ""
    /\ cfg.email.recipientEmails # <<>>

\* Outside a pipeline run the orchestrator's variables are at rest.
PIdle ==
    /\ config = [githubToken |-> "",
                 search |-> [resultsPerQuery |-> 15, maxNewsAgeDays |-> 7],
                 email |-> EmailConfig(FALSE)]
    /\ saveLocal = FALSE
    /\ ppc = "idle"
    /\ results = None
    /\ rawArticles = None
    /\ textReport = None
    /\ htmlReport = None
    /\ saved = <<>>
    /\ sent = <<>>
    /\ raisedAt = "none"

\* ------------------------------------------------------------ search_news
MakeArticle(result, query) ==
    [title          |-> Get(result, "title", ""),
     link           |-> Get(result, "url", ""),
     snippet        |-> Get(result, "body", ""),
     source         |-> Get(result, "source", ""),
     date           |-> Get(result, "date", ""),
     image          |-> Get(result, "image", ""),
     query_category |-> query]

\* An answer of the provider is either a list of hits, or a failure raised
\* somewhere inside the try block after `results` hits had been fetched.
\* The except clause turns every failure into the empty list. `slept` is
\* the time.sleep taken inside the call: the last statement of the try block.
CoolDown == 1

search_news_raises(answer, query) ==
    [raised   |-> ~answer.ok,
     articles |-> <<>>,
     slept    |-> IF answer.ok THEN CoolDown ELSE 0]

search_news_partial(answer, query) ==
    [raised   |-> FALSE,
     articles |-> [i \in 1..Len(answer.results) |-> MakeArticle(answer.results[i], query)],
     slept    |-> IF answer.ok THEN CoolDown ELSE 0]

search_news(answer, query) ==
    IF answer.ok
    THEN [raised   |-> FALSE,
          articles |-> [i \in 1..Len(answer.results) |-> MakeArticle(answer.results[i], query)],
          slept    |-> CoolDown]
    ELSE [raised |-> FALSE, articles |-> <<>>, slept |-> 0]

\* The request search_news sends to DDGS.news.
NewsRequest(query, max_results, time_period) ==
    [keywords |-> query, region |-> "us-en", safesearch |-> "moderate",
     timelimit |-> time_period, max_results |-> max_results]

\* search_multiple_topics calls search_news(query=keyword,
\* max_results=results_per_query, time_period="w")
TopicRequest(keyword, perQuery) == NewsRequest(keyword, perQuery, "w")

DefaultResultsPerQuery == 8

Min(a, b) == IF a <= b THEN a ELSE b

\* Hits the provider has handed out so far in this run.
RECURSIVE HitsServed(_)
HitsServed(log) ==
    IF log = <<>> THEN 0 ELSE Len(Head(log).results) + HitsServed(Tail(log))

Answers(hits, budget) ==
    { [ok |-> TRUE, results |-> r] : r \in SeqsUpTo(hits, budget) } \cup
    { [ok |-> FALSE, results |-> r] : r \in SeqsUpTo(hits, IF budget > 0 THEN 1 ELSE 0) }

\* ------------------------------------------------- search_multiple_topics
\* Body of `for article in articles`: the dedup step for one article.
Accumulate_NoSeenCheck(acc, seen, article, category) ==
    LET link == Get(article, "link", "")
    IN  IF link # ""
        THEN [seen |-> seen \cup {link},
              acc  |-> Append(acc, Put(article, "category", category))]
        ELSE [seen |-> seen, acc |-> acc]

Accumulate_LastWins(acc, seen, article, category) ==
    LET link == Get(article, "link", "")
    IN  IF link # "" /\ link \notin seen
        THEN [seen |-> seen \cup {link},
              acc  |-> Append(acc, Put(article, "category", category))]
        ELSE IF link # ""
        THEN [seen |-> seen,
              acc  |-> [i \in 1..Len(acc) |->
                          IF acc[i].link = link
                          THEN Put(article, "category", category) ELSE acc[i]]]
        ELSE [seen |-> seen, acc |-> acc]

Accumulate_KeepEmptyLink(acc, seen, article, category) ==
    LET link == Get(article, "link", "")
    IN  IF link \notin seen
        THEN [seen |-> seen \cup {link},
              acc  |-> Append(acc, Put(article, "category", category))]
        ELSE [seen |-> seen, acc |-> acc]

Accumulate_Prepend(acc, seen, article, category) ==
    LET link == Get(article, "link", "")
    IN  IF link # "" /\ link \notin seen
        THEN [seen |-> seen \cup {link},
              acc  |-> <<Put(article, "category", category)>> \o acc]
        ELSE [seen |-> seen, acc |-> acc]

Accumulate(acc, seen, article, category) ==
    LET link == Get(article, "link", "")
    IN  IF link # "" /\ link \notin seen
        THEN [seen |-> seen \cup {link},
              acc  |-> Append(acc, Put(article, "category", category))]
        ELSE [seen |-> seen, acc |-> acc]

\* all_results[category] = category_articles
BindCategory_SkipEmpty(mapping, category, list) ==
    IF list = <<>> THEN mapping ELSE Put(mapping, category, list)

BindCategory(mapping, category, list) == Put(mapping, category, list)

\* ----------------------------------------------------- GitHubModelsClient
DefaultMaxRetries == 3
DefaultBaseDelay == 5

NewClient ==
    [githubToken |-> "token",
     model       |-> "gpt-4o-mini",
     headers     |-> [Authorization |-> "Bearer token"],
     maxRetries  |-> DefaultMaxRetries,
     baseDelay   |-> DefaultBaseDelay]

NoOutcome == [kind |-> "none"]

GIdle ==
    /\ client = NewClient
    /\ gpc = "idle"
    /\ attempt = 0
    /\ requests = 0
    /\ sleeps = <<>>
    /\ responses = <<>>
    /\ outcome = NoOutcome
    /\ agentOutcome = NoOutcome
    /\ genLog = <<>>

CurCategory == topics[ci].category
CurKeywords_Reversed ==
    LET kws == topics[ci].keywords
    IN  [i \in 1..Len(kws) |-> kws[Len(kws) + 1 - i]]

CurKeywords == topics[ci].keywords

SInit ==
    /\ topics \in TopicSets
    /\ catalogue \in Catalogues
    /\ spc = "category"
    /\ ci = 1
    /\ ki = 1
    /\ articles = <<>>
    /\ category_articles = <<>>
    /\ seen_links = {}
    /\ all_results = EmptyDict
    /\ searchLog = <<>>
    /\ results_per_query = DefaultResultsPerQuery
    /\ GIdle
    /\ PIdle

\* seen_links = set() at the top of each category
FreshSeen_Keep(seen) == seen

FreshSeen(seen) == {}

\* for category, keywords in topics.items(): fresh accumulator and seen set
BeginCategory ==
    /\ spc = "category"
    /\ ci <= Len(topics)
    /\ category_articles' = <<>>
    /\ seen_links' = FreshSeen(seen_links)
    /\ ki' = 1
    /\ spc' = "keyword"
    /\ UNCHANGED <<topics, catalogue, results_per_query, ci, articles, all_results, searchLog>>
    /\ UNCHANGED gvars
    /\ UNCHANGED pvars

\* for keyword in keywords: articles = self.search_news(keyword, ...)
SearchKeyword ==
    /\ spc = "keyword"
    /\ ki <= Len(CurKeywords)
    /\ \E answer \in Answers(catalogue,
                            Min(TopicRequest(CurKeywords[ki], results_per_query).max_results,
                                MaxHits - HitsServed(searchLog))) :
         LET r == search_news(answer, CurKeywords[ki])
         IN  /\ searchLog' = Append(searchLog,
                    [category |-> CurCategory, query |-> CurKeywords[ki],
                     request |-> TopicRequest(CurKeywords[ki], results_per_query),
                     ok |-> answer.ok, results |-> answer.results,
                     returned |-> r.articles, slept |-> r.slept])
             /\ IF r.raised
                THEN /\ spc' = "raised"
                     /\ UNCHANGED <<ki, articles>>
                ELSE IF r.articles = <<>>
                THEN /\ spc' = "keyword"
                     /\ ki' = ki + 1
                     /\ articles' = <<>>
                ELSE /\ spc' = "dedup"
                     /\ ki' = ki
                     /\ articles' = r.articles
    /\ UNCHANGED <<topics, catalogue, results_per_query, ci, category_articles, seen_links, all_results>>
    /\ UNCHANGED gvars
    /\ UNCHANGED pvars

\* for article in articles: one iteration of the dedup loop
DedupArticle ==
    /\ spc = "dedup"
    /\ articles # <<>>
    /\ LET r == Accumulate(category_articles, seen_links, Head(articles), CurCategory)
       IN  /\ category_articles' = r.acc
           /\ seen_links' = r.seen
    /\ articles' = Tail(articles)
    /\ IF Tail(articles) = <<>>
       THEN spc' = "keyword" /\ ki' = ki + 1
       ELSE spc' = "dedup" /\ ki' = ki
    /\ UNCHANGED <<topics, catalogue, results_per_query, ci, all_results, searchLog>>
    /\ UNCHANGED gvars
    /\ UNCHANGED pvars

\* keywords exhausted: all_results[category] = category_articles
EndCategory ==
    /\ spc = "keyword"
    /\ ki > Len(CurKeywords)
    /\ all_results' = BindCategory(all_results, CurCategory, category_articles)
    /\ ci' = ci + 1
    /\ spc' = "category"
    /\ UNCHANGED <<topics, catalogue, results_per_query, ki, articles, category_articles, seen_links, searchLog>>
    /\ UNCHANGED gvars
    /\ UNCHANGED pvars

\* return all_results
ReturnResults ==
    /\ spc = "category"
    /\ ci > Len(topics)
    /\ spc' = "returned"
    /\ UNCHANGED <<topics, catalogue, results_per_query, ci, ki, articles, category_articles,
                   seen_links, all_results, searchLog>>
    /\ UNCHANGED gvars
    /\ UNCHANGED pvars

SNext == BeginCategory \/ SearchKeyword \/ DedupArticle \/ EndCategory \/ ReturnResults

SpecSearch == SInit /\ [][SNext]_vars

\* --------------------------------------------------------------- generate
MaxCalls == 2

InvalidCredentials == "Invalid GitHub token."
AccessDenied == "GitHub Copilot access required."
ProviderError == "API error"
RateLimitExhausted == "API rate limit exceeded"

WellFormed(text) == [choices |-> << [message |-> [content |-> text]] >>]

\* What one requests.post may end in: an HTTP response with a status and a
\* body, or a transport-level exception.
BackendAnswers ==
    { [kind |-> "response", status |-> 200, body |-> WellFormed("text1")],
      [kind |-> "response", status |-> 200,
       body |-> [choices |-> << [message |-> [content |-> "text2"]],
                               [message |-> [content |-> "text1"]] >>]],
      [kind |-> "response", status |-> 200, body |-> [choices |-> <<>>]],
      [kind |-> "response", status |-> 200, body |-> [error |-> "bad"]],
      [kind |-> "response", status |-> 429, body |-> [error |-> "slow down"]],
      [kind |-> "response", status |-> 401, body |-> [error |-> "unauthorized"]],
      [kind |-> "response", status |-> 403, body |-> [error |-> "forbidden"]],
      [kind |-> "response", status |-> 500, body |-> [error |-> "server"]],
      [kind |-> "exception", type |-> "Timeout"],
      [kind |-> "exception", type |-> "ConnectionError"] }

\* response.raise_for_status()
RaisesHTTPError(status) == status >= 400 /\ status < 600

Returned(text) == [kind |-> "returned", text |-> text]
Raised(type, message) == [kind |-> "raised", type |-> type, message |-> message]

\* data["choices"][0]["message"]["content"]; a lookup that fails raises, is
\* logged and re-raised by `except Exception`.
ExtractContent_Lenient(body) ==
    IF "choices" \notin DOMAIN body THEN Returned("")
    ELSE IF Len(body.choices) = 0 THEN Returned("")
    ELSE IF "message" \notin DOMAIN body.choices[1] THEN Returned("")
    ELSE IF "content" \notin DOMAIN body.choices[1].message THEN Returned("")
    ELSE Returned(body.choices[1].message.content)

ExtractContent(body) ==
    IF "choices" \notin DOMAIN body THEN Raised("KeyError", "choices")
    ELSE IF Len(body.choices) = 0 THEN Raised("IndexError", "choices")
    ELSE IF "message" \notin DOMAIN body.choices[1] THEN Raised("KeyError", "message")
    ELSE IF "content" \notin DOMAIN body.choices[1].message THEN Raised("KeyError", "content")
    ELSE Returned(body.choices[1].message.content)

\* except requests.exceptions.HTTPError: retry after a sleep on 429, raise otherwise.
OnHTTPError_Retry401(status, att, baseDelay) ==
    IF status \in {429, 401}
    THEN [retry |-> TRUE, waitTime |-> baseDelay * (att + 1) * 2, raises |-> NoOutcome]
    ELSE IF status = 403
    THEN [retry |-> FALSE, waitTime |-> 0, raises |-> Raised("RuntimeError", AccessDenied)]
    ELSE [retry |-> FALSE, waitTime |-> 0, raises |-> Raised("RuntimeError", ProviderError)]

OnHTTPError_403As401(status, att, baseDelay) ==
    IF status = 429
    THEN [retry |-> TRUE, waitTime |-> baseDelay * (att + 1) * 2, raises |-> NoOutcome]
    ELSE IF status \in {401, 403}
    THEN [retry |-> FALSE, waitTime |-> 0, raises |-> Raised("RuntimeError", InvalidCredentials)]
    ELSE [retry |-> FALSE, waitTime |-> 0, raises |-> Raised("RuntimeError", ProviderError)]

OnHTTPError_RetryServerError(status, att, baseDelay) ==
    IF status = 429 \/ status >= 500
    THEN [retry |-> TRUE, waitTime |-> baseDelay * (att + 1) * 2, raises |-> NoOutcome]
    ELSE IF status = 401
    THEN [retry |-> FALSE, waitTime |-> 0, raises |-> Raised("RuntimeError", InvalidCredentials)]
    ELSE IF status = 403
    THEN [retry |-> FALSE, waitTime |-> 0, raises |-> Raised("RuntimeError", AccessDenied)]
    ELSE [retry |-> FALSE, waitTime |-> 0, raises |-> Raised("RuntimeError", ProviderError)]

OnHTTPError_DelayFromZero(status, att, baseDelay) ==
    IF status = 429
    THEN [retry |-> TRUE, waitTime |-> baseDelay * att * 2, raises |-> NoOutcome]
    ELSE IF status = 401
    THEN [retry |-> FALSE, waitTime |-> 0, raises |-> Raised("RuntimeError", InvalidCredentials)]
    ELSE IF status = 403
    THEN [retry |-> FALSE, waitTime |-> 0, raises |-> Raised("RuntimeError", AccessDenied)]
    ELSE [retry |-> FALSE, waitTime |-> 0, raises |-> Raised("RuntimeError", ProviderError)]

OnHTTPError(status, att, baseDelay) ==
    IF status = 429
    THEN [retry |-> TRUE, waitTime |-> baseDelay * (att + 1) * 2, raises |-> NoOutcome]
    ELSE IF status = 401
    THEN [retry |-> FALSE, waitTime |-> 0, raises |-> Raised("RuntimeError", InvalidCredentials)]
    ELSE IF status = 403
    THEN [retry |-> FALSE, waitTime |-> 0, raises |-> Raised("RuntimeError", AccessDenied)]
    ELSE [retry |-> FALSE, waitTime |-> 0, raises |-> Raised("RuntimeError", ProviderError)]

\* for attempt in range(self.maxRetries)
InRange_Inclusive(att, maxRetries) == att <= maxRetries

InRange(att, maxRetries) == att < maxRetries

Terminal == gpc \in {"Succeeded", "Failed"}

\* BaseAgent.generate: `return self.client.generate(...)`, and on any
\* exception log it and `raise` the same exception.
BaseAgent_generate_Swallow(clientOutcome) ==
    IF clientOutcome.kind = "raised" THEN Returned("") ELSE clientOutcome

BaseAgent_generate(clientOutcome) == clientOutcome

Finish_KeepsLooping(o) ==
    /\ outcome' = o
    /\ gpc' = IF o.kind = "returned" THEN "Attempting" ELSE "Failed"

Finish(o) ==
    /\ outcome' = o
    /\ gpc' = IF o.kind = "returned" THEN "Succeeded" ELSE "Failed"

GInit ==
    /\ GIdle
    /\ PIdle
    /\ topics = <<>>
    /\ catalogue = {}
    /\ spc = "idle"
    /\ ci = 1
    /\ ki = 1
    /\ articles = <<>>
    /\ category_articles = <<>>
    /\ seen_links = {}
    /\ all_results = EmptyDict
    /\ searchLog = <<>>
    /\ results_per_query = DefaultResultsPerQuery

\* range(self.maxRetries) starts a fresh counter at every call.
FirstAttempt_Carry(previous) == previous

FirstAttempt(previous) == 0

\* BaseAgent.generate calls client.generate: the first iteration of the loop
\* posts the request, or the loop body never runs and the final raise is
\* reached.
EnterGenerate ==
    /\ genLog' = IF Terminal
                 THEN Append(genLog, [outcome |-> outcome, requests |-> requests,
                                      sleeps |-> sleeps, responses |-> responses,
                                      agent |-> agentOutcome])
                 ELSE genLog
    /\ agentOutcome' = NoOutcome
    /\ attempt' = FirstAttempt(attempt)
    /\ sleeps' = <<>>
    /\ responses' = <<>>
    /\ IF InRange(FirstAttempt(attempt), client.maxRetries)
       THEN /\ requests' = 1
            /\ gpc' = "Attempting"
            /\ outcome' = NoOutcome
       ELSE /\ requests' = 0
            /\ Finish(Raised("RuntimeError", RateLimitExhausted))
    /\ UNCHANGED client

Generate ==
    /\ \/ gpc = "idle"
       \/ (Terminal /\ agentOutcome # NoOutcome /\ Len(genLog) + 1 < MaxCalls)
    /\ EnterGenerate
    /\ UNCHANGED svars
    /\ UNCHANGED pvars

\* requests.post returns or raises, and the try/except arms handle it.
Respond ==
    /\ gpc = "Attempting"
    /\ \E ans \in BackendAnswers :
         /\ responses' = Append(responses, ans)
         /\ IF ans.kind = "exception"
            THEN /\ Finish(Raised(ans.type, ""))
                 /\ UNCHANGED sleeps
            ELSE IF ~RaisesHTTPError(ans.status)
            THEN /\ Finish(ExtractContent(ans.body))
                 /\ UNCHANGED sleeps
            ELSE LET h == OnHTTPError(ans.status, attempt, client.baseDelay)
                 IN  IF h.retry
                     THEN /\ sleeps' = Append(sleeps, h.waitTime)
                          /\ gpc' = "Backoff"
                          /\ UNCHANGED outcome
                     ELSE /\ Finish(h.raises)
                          /\ UNCHANGED sleeps
    /\ UNCHANGED <<client, attempt, requests, agentOutcome, genLog>>
    /\ UNCHANGED svars
    /\ UNCHANGED pvars

\* time.sleep(waitTime) is over; `continue` moves to the next iteration, or
\* the loop is exhausted and the final raise is reached.
EndBackoff ==
    /\ gpc = "Backoff"
    /\ attempt' = attempt + 1
    /\ IF InRange(attempt + 1, client.maxRetries)
       THEN /\ requests' = requests + 1
            /\ gpc' = "Attempting"
            /\ UNCHANGED outcome
       ELSE /\ Finish(Raised("RuntimeError", RateLimitExhausted))
            /\ UNCHANGED requests
    /\ UNCHANGED <<client, sleeps, responses, agentOutcome, genLog>>
    /\ UNCHANGED svars
    /\ UNCHANGED pvars

\* client.generate is over: BaseAgent.generate hands its result to the caller.
AgentDone ==
    /\ Terminal
    /\ agentOutcome = NoOutcome
    /\ agentOutcome' = BaseAgent_generate(outcome)
    /\ UNCHANGED <<client, gpc, attempt, requests, sleeps, responses, outcome, genLog>>

AgentReturn ==
    /\ AgentDone
    /\ UNCHANGED svars
    /\ UNCHANGED pvars

GNext == Generate \/ Respond \/ EndBackoff \/ AgentReturn

SpecGen == GInit /\ [][GNext]_vars

\* ------------------------------------------------------------ runPipeline
\* _gatherNews searches the configured keyword lists of the fixed categories.
ConfiguredTopics == TopicsOf(<<1, 0>>)

ConfiguredCatalogue ==
    { [title |-> "t1", url |-> "x"], [title |-> "t2", url |-> "x"] }

NewResults == [success |-> FALSE, timestamp |-> "now"]

\* The reports are kept as what they were built from; their layout is not
\* modelled.
BasicReport(raw) == [kind |-> "basicReport", articles |-> raw]
BasicHtml(raw) == [kind |-> "basicHtml", articles |-> raw]
AiReport(text) == [kind |-> "aiReport", text |-> text]
CleanHtml(text) == [kind |-> "aiHtml", text |-> text]
FallbackHtml(report) == [kind |-> "fallbackHtml", report |-> report]

EmailSenderOf(cfg) ==
    IF canSendEmail(cfg)
    THEN [senderEmail |-> cfg.email.senderEmail, senderPassword |-> cfg.email.senderPassword,
          smtpServer |-> cfg.email.smtpServer, smtpPort |-> cfg.email.smtpPort]
    ELSE None

\* Attribute lookup on a dataclass instance.
GetAttr(obj, name) ==
    IF name \in DOMAIN obj
    THEN [raised |-> FALSE, value |-> obj[name]]
    ELSE [raised |-> TRUE, value |-> None]

AttributeErrorMessage == "'EmailConfig' object has no attribute 'recipientEmail'"
TypeErrorMessage == "sendReport() got an unexpected keyword argument 'recipientEmail'"
OSErrorMessage == "OSError"

SendReportParams == {"recipientEmails", "htmlReport", "subjectTemplate"}

\* EmailSender.sendHtmlEmail: True when the SMTP session went through; each
\* except clause logs and returns False.
SmtpOutcomes == {"sent", "SMTPAuthenticationError", "SMTPException", "Exception"}

sendHtmlEmail(smtp) == smtp = "sent"

\* EmailSender.sendReport: format the subject, strip the HTML, and return
\* what sendHtmlEmail returns.
sendReport(kwargs, smtp) == sendHtmlEmail(smtp)

\* except Exception as e: results["error"] = str(e)
OnStageException_NoMessage(res, e) == res

OnStageException(res, e) == Put(res, "error", e)

\* rawArticles = self._gatherNews() is a plain call: the next statement runs
\* once search_multiple_topics has returned.
GatherFinished_Early == spc \in {"category", "returned"}

GatherFinished == spc = "returned"

PInit ==
    /\ topics = ConfiguredTopics
    /\ catalogue = ConfiguredCatalogue
    /\ spc = "category"
    /\ ci = 1
    /\ ki = 1
    /\ articles = <<>>
    /\ category_articles = <<>>
    /\ seen_links = {}
    /\ all_results = EmptyDict
    /\ searchLog = <<>>
    /\ GIdle
    /\ config \in Configs
    /\ results_per_query = config.search.resultsPerQuery
    /\ saveLocal \in BOOLEAN
    /\ ppc = "gather"
    /\ results = NewResults
    /\ rawArticles = None
    /\ textReport = None
    /\ htmlReport = None
    /\ saved = <<>>
    /\ sent = <<>>
    /\ raisedAt = "none"

\* results["success"] = True, then return results
Succeed ==
    /\ results' = Put(results, "success", TRUE)
    /\ ppc' = "returned"
    /\ UNCHANGED raisedAt

\* an exception of stage `stage` reaches the except clause of runPipeline
Fail(stage, e) ==
    /\ results' = OnStageException(results, e)
    /\ ppc' = "returned"
    /\ raisedAt' = stage

\* if not self.hasAi: basic report and basic HTML from the raw articles
BasicMode ==
    /\ ppc = "gather"
    /\ GatherFinished
    /\ ~hasAiBackend(config)
    /\ rawArticles' = all_results
    /\ textReport' = BasicReport(all_results)
    /\ htmlReport' = BasicHtml(all_results)
    /\ IF saveLocal
       THEN ppc' = "save" /\ UNCHANGED <<results, raisedAt>>
       ELSE Succeed
    /\ UNCHANGED <<config, saveLocal, saved, sent>>
    /\ UNCHANGED <<svars, gvars>>

\* Stage 2: _createDirectReport calls self.researchAgent.generate
DirectReport ==
    /\ ppc = "gather"
    /\ GatherFinished
    /\ hasAiBackend(config)
    /\ rawArticles' = all_results
    /\ EnterGenerate
    /\ ppc' = "report"
    /\ UNCHANGED <<config, saveLocal, results, textReport, htmlReport, saved, sent, raisedAt>>
    /\ UNCHANGED svars

\* _createDirectReport returns the generated report, or the basic report
\* when generate raised; Stage 3: htmlEditor.run calls self.generate
FormatHtml ==
    /\ ppc = "report"
    /\ agentOutcome # NoOutcome
    /\ textReport' = IF agentOutcome.kind = "returned"
                     THEN AiReport(agentOutcome.text)
                     ELSE BasicReport(rawArticles)
    /\ EnterGenerate
    /\ ppc' = "html"
    /\ UNCHANGED <<config, saveLocal, results, rawArticles, htmlReport, saved, sent, raisedAt>>
    /\ UNCHANGED svars

\* if saveLocal: self._saveReports(...) comes before Stage 6
AfterHtml_DeliverFirst(save) == "deliver"

AfterHtml(save) == IF save THEN "save" ELSE "deliver"

\* htmlEditor.run returns the cleaned HTML, or the fallback HTML of the text
\* report when generate raised
HtmlReady ==
    /\ ppc = "html"
    /\ agentOutcome # NoOutcome
    /\ htmlReport' = IF agentOutcome.kind = "returned"
                     THEN CleanHtml(agentOutcome.text)
                     ELSE FallbackHtml(textReport)
    /\ ppc' = AfterHtml(saveLocal)
    /\ UNCHANGED <<config, saveLocal, results, rawArticles, textReport, saved, sent, raisedAt>>
    /\ UNCHANGED <<svars, gvars>>

\* _saveReports: mkdir, write the text file, then the HTML file; each write
\* may raise OSError
SaveReports ==
    /\ ppc = "save"
    /\ \E io \in {"ok", "failText", "failHtml"} :
         /\ saved' = IF io = "failText" THEN saved
                     ELSE IF io = "failHtml"
                     THEN Append(saved, [suffix |-> "md", content |-> textReport])
                     ELSE saved \o << [suffix |-> "md", content |-> textReport],
                                      [suffix |-> "html", content |-> htmlReport] >>
         /\ IF io # "ok" THEN Fail("save", OSErrorMessage)
            ELSE IF hasAiBackend(config)
            THEN ppc' = "deliver" /\ UNCHANGED <<results, raisedAt>>
            ELSE Succeed
    /\ UNCHANGED <<config, saveLocal, rawArticles, textReport, htmlReport, sent>>
    /\ UNCHANGED <<svars, gvars>>

\* Stage 6: if self.emailSender: sendReport(recipientEmail=
\* self.config.email.recipientEmail, htmlReport=..., subjectTemplate=...)
Deliver ==
    /\ ppc = "deliver"
    /\ IF EmailSenderOf(config) = None
       THEN Succeed /\ UNCHANGED sent
       ELSE LET recipient == GetAttr(config.email, "recipientEmail")
                subject == GetAttr(config.email, "subjectTemplate")
            IN  IF recipient.raised \/ subject.raised
                THEN Fail("deliver", AttributeErrorMessage) /\ UNCHANGED sent
                ELSE LET kwargs == [recipientEmail |-> recipient.value,
                                    htmlReport |-> htmlReport,
                                    subjectTemplate |-> subject.value]
                     IN  IF DOMAIN kwargs # SendReportParams
                         THEN Fail("deliver", TypeErrorMessage) /\ UNCHANGED sent
                         ELSE /\ \E smtp \in SmtpOutcomes :
                                    sent' = Append(sent, [args |-> kwargs,
                                                          emailSent |-> sendReport(kwargs, smtp)])
                              /\ Succeed
    /\ UNCHANGED <<config, saveLocal, rawArticles, textReport, htmlReport, saved>>
    /\ UNCHANGED <<svars, gvars>>

PNext ==
    \/ BeginCategory \/ SearchKeyword \/ DedupArticle \/ EndCategory \/ ReturnResults
    \/ BasicMode \/ DirectReport
    \/ Respond \/ EndBackoff \/ AgentReturn
    \/ FormatHtml \/ HtmlReady \/ SaveReports \/ Deliver

SpecPipeline == PInit /\ [][PNext]_vars

\* ---------------------------------------------------------------- progress
\* runPipeline is one sequential thread: whenever a step is possible the
\* interpreter takes one; a pending search or backend request returns or
\* fails (SearchKeyword, Respond) and a sleep ends (EndBackoff).
LiveTopics == { TopicsOf(<<1, 1>>), TopicsOf(<<2, 0>>) }

LiveCatalogue == { [title |-> "t1", url |-> "x"] }

LiveConfigs == { c \in Configs : c.search.resultsPerQuery = 1 /\ canSendEmail(c) }

LiveInit ==
    /\ topics \in LiveTopics
    /\ catalogue = LiveCatalogue
    /\ spc = "category"
    /\ ci = 1
    /\ ki = 1
    /\ articles = <<>>
    /\ category_articles = <<>>
    /\ seen_links = {}
    /\ all_results = EmptyDict
    /\ searchLog = <<>>
    /\ GIdle
    /\ config \in LiveConfigs
    /\ results_per_query = config.search.resultsPerQuery
    /\ saveLocal = TRUE
    /\ ppc = "gather"
    /\ results = NewResults
    /\ rawArticles = None
    /\ textReport = None
    /\ htmlReport = None
    /\ saved = <<>>
    /\ sent = <<>>
    /\ raisedAt = "none"

SpecLive == LiveInit /\ [][PNext]_vars /\ WF_vars(PNext)

\* ======================================================================
\* Properties of search_multiple_topics (checked under SpecSearch)
\* ======================================================================
TopicKeys == { topics[i].category : i \in 1..Len(topics) }

KeywordsOf(c) == topics[CHOOSE i \in 1..Len(topics) : topics[i].category = c].keywords

LinksOf(list) == { list[i].link : i \in 1..Len(list) }

NoSharedLink(list) ==
    \A i, j \in 1..Len(list) : list[i].link = list[j].link => i = j

\* The search_news calls made for category c, in call order.
RECURSIVE CallsOf(_, _)
CallsOf(log, c) ==
    IF log = <<>> THEN <<>>
    ELSE IF Head(log).category = c
         THEN <<Head(log)>> \o CallsOf(Tail(log), c)
         ELSE CallsOf(Tail(log), c)

\* Concatenation of what the calls handed to the dedup loop.
RECURSIVE Flat(_)
Flat(calls) == IF calls = <<>> THEN <<>> ELSE Head(calls).returned \o Flat(Tail(calls))

\* Concatenation of the provider's hits of the successful calls only,
\* as articles.
RECURSIVE FlatSuccessful(_)
FlatSuccessful(calls) ==
    IF calls = <<>> THEN <<>>
    ELSE LET e == Head(calls)
         IN  (IF e.ok
              THEN [i \in 1..Len(e.results) |-> MakeArticle(e.results[i], e.query)]
              ELSE <<>>) \o FlatSuccessful(Tail(calls))

\* Positions of flat that hold the first occurrence of a non-empty link.
FirstPositions(flat) ==
    { i \in 1..Len(flat) :
        /\ flat[i].link # ""
        /\ \A j \in 1..(i - 1) : flat[j].link # flat[i].link }

\* The sub-sequence of flat at the positions in keep up to n, tagged with c.
RECURSIVE FirstOccurrences(_, _, _, _)
FirstOccurrences(flat, keep, n, c) ==
    IF n = 0 THEN <<>>
    ELSE LET before == FirstOccurrences(flat, keep, n - 1, c)
         IN  IF n \in keep
             THEN Append(before, [k \in DOMAIN flat[n] \cup {"category"} |->
                                     IF k = "category" THEN c ELSE flat[n][k]])
             ELSE before

Deduplicated(flat, c) == FirstOccurrences(flat, FirstPositions(flat), Len(flat), c)

\* C1: the returned mapping has exactly the keys of the topic mapping, and a
\* category for which no article was retained is present with an empty list.
C1_KeySetEqualsTopics ==
    spc = "returned" =>
        /\ DOMAIN all_results = TopicKeys
        /\ \A c \in TopicKeys :
              LET flat == Flat(CallsOf(searchLog, c))
              IN  (\A i \in 1..Len(flat) : flat[i].link = "")
                  => c \in DOMAIN all_results /\ all_results[c] = <<>>

C1_Witness ==
    /\ spc = "returned"
    /\ Len(topics) = 2
    /\ \E c, d \in TopicKeys :
          /\ all_results[c] = <<>>
          /\ all_results[d] # <<>>
          /\ \E i \in 1..Len(searchLog) : ~searchLog[i].ok

\* C2: while a category is accumulated and in the result, no two articles of
\* one category list share a link, and seen_links is exactly the set of
\* links accumulated so far.
C2_UniqueLinksAndSeenSet ==
    /\ NoSharedLink(category_articles)
    /\ seen_links = LinksOf(category_articles)
    /\ \A c \in DOMAIN all_results : NoSharedLink(all_results[c])

C2_Witness ==
    /\ spc = "dedup"
    /\ Len(category_articles) = 2
    /\ \E i \in 1..Len(searchLog) :
          /\ searchLog[i].category = CurCategory
          /\ Len(searchLog[i].returned) = 2
          /\ searchLog[i].returned[1].link = searchLog[i].returned[2].link
          /\ searchLog[i].returned[1].link # ""

\* C3: of several articles with one link, the category keeps the one met
\* first in keyword order, with every field as search_news returned it
\* (title and link as the provider gave them).
C3_FirstOccurrenceKeptUnmodified ==
    \A c \in DOMAIN all_results :
        LET flat == Flat(CallsOf(searchLog, c))
        IN  \A n \in 1..Len(all_results[c]) :
              LET a == all_results[c][n]
              IN  \E i \in 1..Len(flat) :
                    /\ flat[i].link = a.link
                    /\ \A j \in 1..(i - 1) : flat[j].link # a.link
                    /\ \A k \in DOMAIN flat[i] : k \in DOMAIN a /\ a[k] = flat[i][k]

C3_Witness ==
    /\ spc = "returned"
    /\ \E c \in DOMAIN all_results :
          LET calls == CallsOf(searchLog, c)
          IN  /\ Len(calls) = 2
              /\ Len(calls[1].returned) >= 1
              /\ Len(calls[2].returned) >= 1
              /\ calls[1].returned[1].link = "x"
              /\ calls[2].returned[1].link = "x"
              /\ calls[1].returned[1].title # calls[2].returned[1].title
              /\ \E n \in 1..Len(all_results[c]) :
                    /\ all_results[c][n].link = "x"
                    /\ all_results[c][n].title = calls[1].returned[1].title
                    /\ all_results[c][n].query_category = calls[1].query

\* C4: no article with an empty or missing link is ever in the accumulator
\* or in a category list of the result.
HasLink(a) == "link" \in DOMAIN a /\ a.link # ""

C4_NoEmptyLinkRetained ==
    /\ \A n \in 1..Len(category_articles) : HasLink(category_articles[n])
    /\ \A c \in DOMAIN all_results :
          \A n \in 1..Len(all_results[c]) : HasLink(all_results[c][n])

C4_Witness ==
    /\ spc = "returned"
    /\ \E i, j \in 1..Len(searchLog) :
          /\ i # j
          /\ searchLog[i].ok /\ searchLog[j].ok
          /\ Len(searchLog[i].results) = 2 /\ Len(searchLog[j].results) = 2
          /\ "url" \notin DOMAIN searchLog[i].results[1]
          /\ Get(searchLog[i].results[2], "url", "") = "x"
          /\ Get(searchLog[j].results[1], "url", "") = "x"
          /\ "url" \notin DOMAIN searchLog[j].results[2]
          /\ Len(all_results[searchLog[i].category]) = 1
          /\ Len(all_results[searchLog[j].category]) = 1

\* C5: when a keyword's search fails, every category is still bound, and its
\* list is the deduplicated, order-preserving concatenation of the hits of
\* the successful keywords only; nothing is aborted.
SomeSearchFailed == \E i \in 1..Len(searchLog) : ~searchLog[i].ok

C5_FailureIsolatedPerKeyword ==
    SomeSearchFailed =>
        /\ spc # "raised"
        /\ spc = "returned" =>
              \A c \in TopicKeys :
                  /\ c \in DOMAIN all_results
                  /\ Len(CallsOf(searchLog, c)) = Len(KeywordsOf(c))
                  /\ all_results[c] =
                        Deduplicated(FlatSuccessful(CallsOf(searchLog, c)), c)

C5_Witness ==
    /\ spc = "returned"
    /\ Len(topics) = 2
    /\ Len(searchLog) = 2
    /\ ~searchLog[1].ok
    /\ searchLog[1].results # <<>>
    /\ searchLog[2].ok
    /\ all_results[searchLog[2].category] # <<>>

\* C6: every category list is the concatenation of the keyword results, in
\* keyword order and provider order, restricted to non-empty links and to the
\* first occurrence of each link.
C6_OrderPreservingDedup ==
    \A c \in DOMAIN all_results :
        all_results[c] = Deduplicated(Flat(CallsOf(searchLog, c)), c)

\* q1 -> [x, y], q2 -> [y, z] gives [x, y, z]
C6_Witness ==
    /\ spc = "returned"
    /\ Len(searchLog) = 2
    /\ searchLog[1].category = "catA" /\ searchLog[2].category = "catA"
    /\ Len(searchLog[1].returned) = 2 /\ Len(searchLog[2].returned) = 2
    /\ searchLog[1].returned[1].link = "x" /\ searchLog[1].returned[2].link = "y"
    /\ searchLog[2].returned[1].link = "y" /\ searchLog[2].returned[2].link = "z"
    /\ Len(all_results["catA"]) = 3
    /\ all_results["catA"][1].link = "x"
    /\ all_results["catA"][2].link = "y"
    /\ all_results["catA"][3].link = "z"

\* C7: search_multiple_topics never ends in an exception, and a category
\* whose keywords all failed is bound to the empty list.
AllFailed(c) ==
    LET calls == CallsOf(searchLog, c)
    IN  /\ calls # <<>>
        /\ \A i \in 1..Len(calls) : ~calls[i].ok

C7_SearchFailuresAbsorbed ==
    /\ spc # "raised"
    /\ \A c \in DOMAIN all_results : AllFailed(c) => all_results[c] = <<>>
    /\ spc = "returned" => \A c \in TopicKeys : AllFailed(c) => c \in DOMAIN all_results

C7_Witness ==
    /\ spc = "returned"
    /\ \E c \in DOMAIN all_results :
          /\ AllFailed(c)
          /\ Len(CallsOf(searchLog, c)) = 2
          /\ all_results[c] = <<>>

\* ======================================================================
\* Properties of generate (checked under SpecGen)
\* ======================================================================
IsStatus(ans, status) == ans.kind = "response" /\ ans.status = status

AllRateLimited == \A i \in 1..Len(responses) : IsStatus(responses[i], 429)

\* C8: answered 429 on every attempt, generate() posts exactly maxRetries
\* requests and then fails with the rate-limit error.
C8_RateLimitedExhaustsBudget ==
    (gpc # "idle" /\ AllRateLimited) =>
        /\ requests <= client.maxRetries
        /\ Len(responses) < client.maxRetries => ~Terminal
        /\ Terminal =>
              /\ requests = client.maxRetries
              /\ Len(responses) = client.maxRetries
              /\ outcome = Raised("RuntimeError", RateLimitExhausted)

C8_Witness ==
    /\ gpc = "Failed"
    /\ AllRateLimited
    /\ requests = 3
    /\ outcome.message = RateLimitExhausted

\* C9: a generate() call never sends more than maxRetries requests, and it is
\* terminal once that many requests have been answered.
C9_BudgetNeverExceededAndTerminal ==
    /\ requests <= client.maxRetries
    /\ Len(responses) = client.maxRetries => Terminal

\* C10: a 401 answer ends generate() at once with the invalid-token error:
\* no request and no sleep follows it.
LastIs(status) == responses # <<>> /\ IsStatus(responses[Len(responses)], status)

RateLimitedBeforeLast ==
    Cardinality({ i \in 1..(Len(responses) - 1) : IsStatus(responses[i], 429) })

C10_UnauthorizedFailsImmediately ==
    LastIs(401) =>
        /\ gpc = "Failed"
        /\ outcome = Raised("RuntimeError", InvalidCredentials)
        /\ requests = Len(responses)
        /\ Len(sleeps) = RateLimitedBeforeLast
        /\ Len(responses) = 1 => requests = 1 /\ sleeps = <<>>

C10_Witness ==
    /\ LastIs(401)
    /\ Len(responses) = 1
    /\ gpc = "Failed"
    /\ requests = 1
    /\ outcome.message = InvalidCredentials

\* C11: a 403 answer ends generate() at once with the access error, which is
\* not the 401 error: no request and no sleep follows it.
C11_ForbiddenFailsImmediately ==
    LastIs(403) =>
        /\ gpc = "Failed"
        /\ outcome = Raised("RuntimeError", AccessDenied)
        /\ outcome.message # InvalidCredentials
        /\ requests = Len(responses)
        /\ Len(sleeps) = RateLimitedBeforeLast

C11_Witness ==
    /\ LastIs(403)
    /\ Len(responses) = 2
    /\ IsStatus(responses[1], 429)
    /\ gpc = "Failed"
    /\ requests = 2
    /\ sleeps = <<10>>
    /\ outcome.message = AccessDenied

\* The error kinds of the design, read off what generate() raises.
ErrorKind(o) ==
    IF o.kind # "raised" THEN "none"
    ELSE IF o.type = "RuntimeError"
    THEN (IF o.message = InvalidCredentials THEN "InvalidCredentials"
          ELSE IF o.message = AccessDenied THEN "AccessDenied"
          ELSE IF o.message = RateLimitExhausted THEN "RateLimitExhausted"
          ELSE "ProviderError")
    ELSE IF o.type \in {"KeyError", "IndexError"} THEN "MalformedResponse"
    ELSE "ProviderError"

LastAnswer == responses[Len(responses)]

OtherHTTPError(ans) ==
    /\ ans.kind = "response"
    /\ ans.status >= 400 /\ ans.status < 600
    /\ ans.status \notin {429, 401, 403}

\* C12: any other HTTP error status, or a transport exception, ends
\* generate() in a provider error with no retry: the backend is not called
\* again and no sleep follows.
C12_OtherErrorsNotRetried ==
    (responses # <<>> /\ (OtherHTTPError(LastAnswer) \/ LastAnswer.kind = "exception")) =>
        /\ gpc = "Failed"
        /\ ErrorKind(outcome) = "ProviderError"
        /\ OtherHTTPError(LastAnswer) => outcome = Raised("RuntimeError", ProviderError)
        /\ LastAnswer.kind = "exception" => outcome = Raised(LastAnswer.type, "")
        /\ requests = Len(responses)
        /\ Len(sleeps) = RateLimitedBeforeLast

C12_Witness ==
    /\ gpc = "Failed"
    /\ genLog # <<>>
    /\ Len(responses) = 1
    /\ LastAnswer.kind = "exception"
    /\ requests = 1
    /\ Len(genLog[1].responses) = 1
    /\ IsStatus(genLog[1].responses[1], 500)
    /\ genLog[1].requests = 1
    /\ genLog[1].outcome.message = ProviderError

\* C13: a 2xx answer whose first choice has no extractable content ends
\* generate() in a failure with no retry; a well-formed one makes it return
\* exactly the content of the first choice.
HasFirstContent(body) ==
    /\ "choices" \in DOMAIN body
    /\ Len(body.choices) >= 1
    /\ "message" \in DOMAIN Head(body.choices)
    /\ "content" \in DOMAIN Head(body.choices).message

C13_MalformedFailsWellFormedReturnsFirst ==
    (responses # <<>> /\ LastAnswer.kind = "response"
        /\ LastAnswer.status >= 200 /\ LastAnswer.status < 300) =>
        /\ requests = Len(responses)
        /\ Len(sleeps) = RateLimitedBeforeLast
        /\ IF HasFirstContent(LastAnswer.body)
           THEN /\ gpc = "Succeeded"
                /\ outcome.kind = "returned"
                /\ outcome.text = Head(LastAnswer.body.choices).message.content
           ELSE /\ gpc = "Failed"
                /\ ErrorKind(outcome) = "MalformedResponse"

C13_Witness ==
    /\ genLog # <<>>
    /\ genLog[1].outcome.kind = "raised"
    /\ genLog[1].requests = 1
    /\ IsStatus(genLog[1].responses[1], 200)
    /\ ~HasFirstContent(genLog[1].responses[1].body)
    /\ gpc = "Succeeded"
    /\ Len(LastAnswer.body.choices) = 2
    /\ outcome.text = "text2"

\* C14: rate-limited on every attempt, generate() does not sleep after the
\* last attempt: it fails directly and has slept maxRetries - 1 times.
C14_NoSleepAfterLastAttempt ==
    (AllRateLimited /\ Len(responses) = client.maxRetries) =>
        /\ gpc = "Failed"
        /\ Len(sleeps) = client.maxRetries - 1

\* C15: the n-th backoff delay of a call is baseDelay * n * 2, so the delays
\* of one call are strictly increasing.
C15_BackoffDelayLinear ==
    /\ \A n \in 1..Len(sleeps) : sleeps[n] = client.baseDelay * n * 2
    /\ \A n \in 2..Len(sleeps) : sleeps[n] > sleeps[n - 1]
    /\ \A n \in 1..Len(sleeps) : sleeps[n] > 0

C15_Witness ==
    /\ sleeps = <<10, 20, 30>>
    /\ client.baseDelay = 5

\* C16: every Failed end of the client is an exception, never a returned
\* text, and BaseAgent.generate hands its caller exactly what the client
\* returned or raised.
C16_FailurePropagatesUnchanged ==
    /\ gpc = "Failed" => outcome.kind = "raised"
    /\ gpc = "Succeeded" => outcome.kind = "returned"
    /\ agentOutcome # NoOutcome => (Terminal /\ agentOutcome = outcome)
    /\ \A i \in 1..Len(genLog) : genLog[i].agent = genLog[i].outcome

C16_Witness ==
    /\ gpc = "Failed"
    /\ agentOutcome = Raised("RuntimeError", RateLimitExhausted)
    /\ genLog # <<>>
    /\ genLog[1].agent = Raised("Timeout", "")

\* C20: between any two consecutive search_news calls of one aggregation the
\* cool-down is slept, whether the earlier call succeeded or failed.
C20_CoolDownBetweenCalls ==
    \A i \in 1..(Len(searchLog) - 1) : searchLog[i].slept = CoolDown

\* ======================================================================
\* Properties of runPipeline (checked under SpecPipeline)
\* ======================================================================
\* C17: runPipeline catches the exception of any stage: it returns a result
\* record in which success = false comes with an error message, and success
\* is true only when no stage raised.
C17_ExceptionsBecomeErrorResult ==
    /\ ppc \in {"gather", "report", "html", "save", "deliver", "returned"}
    /\ {"success", "timestamp"} \subseteq DOMAIN results
    /\ ppc # "returned" => (~results.success /\ raisedAt = "none")
    /\ ppc = "returned" =>
          /\ ~results.success => "error" \in DOMAIN results
          /\ results.success => (raisedAt = "none" /\ "error" \notin DOMAIN results)
          /\ raisedAt # "none" => ~results.success

C17_Witness ==
    /\ ppc = "returned"
    /\ hasAiBackend(config)
    /\ raisedAt = "save"
    /\ Len(saved) = 1
    /\ ~results.success
    /\ results.error = OSErrorMessage

\* C18: in AI mode, when both generate calls fail, the run does not fail: the
\* text report is the basic report of the aggregated articles, the HTML is
\* the fallback HTML of that text, and (saving apart) the run succeeds.
C18_GenerationFailureDoesNotFailPipeline ==
    ( /\ ppc = "returned"
      /\ hasAiBackend(config)
      /\ Len(genLog) = 1
      /\ genLog[1].agent.kind = "raised"
      /\ agentOutcome.kind = "raised"
      /\ raisedAt # "save" ) =>
        /\ textReport = BasicReport(rawArticles)
        /\ htmlReport = FallbackHtml(textReport)
        /\ results.success

\* C19: at most one backend request is outstanding, it is outstanding only
\* while generate() waits for it, no generate() runs before the search
\* aggregation has returned, and the second generate() starts only after the
\* first one has ended.
OutstandingBackend == requests - Len(responses)

C19_OneCallAtATime ==
    /\ OutstandingBackend \in {0, 1}
    /\ OutstandingBackend = 1 <=> gpc = "Attempting"
    /\ gpc \in {"Attempting", "Backoff"} => (spc = "returned" /\ ppc \in {"report", "html"})
    /\ spc # "returned" => (gpc = "idle" /\ ppc = "gather")
    /\ ppc = "html" => (Len(genLog) = 1 /\ genLog[1].agent # NoOutcome)
    /\ ppc \in {"save", "deliver", "returned"} => gpc \in {"idle", "Succeeded", "Failed"}

C19_Witness ==
    /\ ppc = "html"
    /\ gpc = "Attempting"
    /\ requests = 2
    /\ Len(responses) = 1
    /\ Len(searchLog) = 1
    /\ searchLog[1].ok
    /\ genLog[1].requests = 3
    /\ genLog[1].agent.kind = "raised"

\* C21: generate() never changes the client's fields, and a call made after
\* a call that exhausted its retries has the full budget again: it posts at
\* least once, exhausts only after maxRetries requests, and its first backoff
\* is the first delay.
ExhaustedCall(o) == o = Raised("RuntimeError", RateLimitExhausted)

C21_ClientStateUnchangedAcrossCalls ==
    /\ client = NewClient
    /\ (genLog # <<>> /\ ExhaustedCall(genLog[Len(genLog)].outcome)) =>
          /\ requests >= 1
          /\ ExhaustedCall(outcome) => requests = client.maxRetries
          /\ sleeps # <<>> => sleeps[1] = client.baseDelay * 2

C21_Witness ==
    /\ genLog # <<>>
    /\ ExhaustedCall(genLog[1].outcome)
    /\ genLog[1].requests = 3
    /\ ExhaustedCall(outcome)
    /\ requests = 3
    /\ sleeps = <<10, 20, 30>>
    /\ client = NewClient

\* C22: every search request of the aggregation is limited to the caller's
\* resultsPerQuery and carries the time window the caller asked for.
WindowOfDays(days) == IF days <= 1 THEN "d" ELSE IF days <= 7 THEN "w" ELSE "m"

C22_RequestsBoundedAndWindowed ==
    \A i \in 1..Len(searchLog) :
        /\ searchLog[i].request.max_results = config.search.resultsPerQuery
        /\ Len(searchLog[i].results) <= config.search.resultsPerQuery
        /\ searchLog[i].request.timelimit = WindowOfDays(config.search.maxNewsAgeDays)

\* C23: an aggregation makes exactly one search call per keyword, categories
\* in input order and keywords in input order within a category; a failed
\* call is not repeated, and a category is bound only after all its keywords
\* have been searched.
RECURSIVE ExpectedCalls(_)
ExpectedCalls(ts) ==
    IF ts = <<>> THEN <<>>
    ELSE [i \in 1..Len(Head(ts).keywords) |->
            [category |-> Head(ts).category, query |-> Head(ts).keywords[i]]]
         \o ExpectedCalls(Tail(ts))

IssuedCalls == [i \in 1..Len(searchLog) |->
                  [category |-> searchLog[i].category, query |-> searchLog[i].query]]

C23_OneCallPerKeywordInOrder ==
    LET expected == ExpectedCalls(topics)
    IN  /\ Len(IssuedCalls) <= Len(expected)
        /\ IssuedCalls = SubSeq(expected, 1, Len(IssuedCalls))
        /\ spc = "returned" => IssuedCalls = expected
        /\ \A c \in DOMAIN all_results :
              Len(CallsOf(searchLog, c)) = Len(KeywordsOf(c))

C23_Witness ==
    /\ spc = "returned"
    /\ Len(topics) = 1
    /\ Len(topics[1].keywords) = 2
    /\ Len(searchLog) = 2
    /\ ~searchLog[1].ok
    /\ searchLog[1].query = topics[1].keywords[1]
    /\ searchLog[2].ok
    /\ searchLog[2].query = topics[1].keywords[2]
    /\ all_results[topics[1].category] # <<>>

\* C24: in AI mode with email configured, a run whose HTML report exists
\* calls the delivery sink exactly once, with the configured recipients and
\* the HTML report, and ends with success = true.
C24_DeliveredOnceThenSuccess ==
    ( /\ ppc = "returned"
      /\ hasAiBackend(config)
      /\ canSendEmail(config)
      /\ raisedAt # "save" ) =>
        /\ Len(sent) = 1
        /\ Get(sent[1].args, "recipientEmails", None) = config.email.recipientEmails
        /\ Get(sent[1].args, "htmlReport", None) = htmlReport
        /\ results.success

\* C25: with saveLocal, both reports are on disk before the delivery stage
\* starts, so a run that fails in delivery has already saved its text and
\* HTML reports; without saveLocal nothing is written.
BothSaved ==
    saved = << [suffix |-> "md", content |-> textReport],
               [suffix |-> "html", content |-> htmlReport] >>

C25_SavedBeforeDelivery ==
    /\ (saveLocal /\ (ppc = "deliver" \/ raisedAt = "deliver" \/ sent # <<>>)) => BothSaved
    /\ (saveLocal /\ ppc = "returned" /\ raisedAt # "save") => BothSaved
    /\ ~saveLocal => saved = <<>>

C25_Witness ==
    /\ ppc = "returned"
    /\ saveLocal
    /\ raisedAt = "deliver"
    /\ ~results.success
    /\ Len(saved) = 2
    /\ saved[1].content.kind = "aiReport"
    /\ saved[2].content.kind = "fallbackHtml"

\* C26: deduplication is per category: every non-empty link returned to a
\* category by some search call appears exactly once in that category's
\* list, whatever other categories hold, and every article in the list of
\* category c carries category = c.
ReturnedLinks(c) ==
    LET calls == CallsOf(searchLog, c)
    IN  { calls[i].returned[k].link : <<i, k>> \in
            { p \in (1..Len(calls)) \X (1..MaxHits + 1) : p[2] <= Len(calls[p[1]].returned) } }
        \ {""}

C26_DedupIsPerCategory ==
    \A c \in DOMAIN all_results :
        /\ \A n \in 1..Len(all_results[c]) : all_results[c][n].category = c
        /\ \A l \in ReturnedLinks(c) :
              Cardinality({ n \in 1..Len(all_results[c]) : all_results[c][n].link = l }) = 1

C26_Witness ==
    /\ spc = "returned"
    /\ Len(topics) = 2
    /\ \A i \in 1..2 :
          /\ topics[i].category \in DOMAIN all_results
          /\ Len(all_results[topics[i].category]) = 1
          /\ all_results[topics[i].category][1].link = "x"
          /\ all_results[topics[i].category][1].category = topics[i].category

\* C27: when an attempt is answered 429 and a later attempt of the same call
\* gets a well-formed 2xx answer, generate() returns that answer's text; and
\* once a call is Succeeded or Failed it posts no further request and sleeps
\* no more.
SucceedsAfterRateLimit ==
    ( /\ Len(responses) >= 2
      /\ IsStatus(responses[1], 429)
      /\ IsStatus(LastAnswer, 200)
      /\ HasFirstContent(LastAnswer.body) ) =>
        /\ gpc = "Succeeded"
        /\ outcome = Returned(Head(LastAnswer.body.choices).message.content)
        /\ requests = Len(responses)
        /\ Len(sleeps) = Len(responses) - 1

TerminalIsAbsorbing ==
    (Terminal /\ genLog' = genLog) =>
        /\ gpc' = gpc
        /\ outcome' = outcome
        /\ requests' = requests
        /\ sleeps' = sleeps
        /\ responses' = responses

C27_RetryThenSuccessAndAbsorbing ==
    []SucceedsAfterRateLimit /\ [][TerminalIsAbsorbing]_vars

C27_Witness ==
    /\ Len(responses) = 3
    /\ IsStatus(responses[1], 429)
    /\ IsStatus(responses[2], 429)
    /\ gpc = "Succeeded"
    /\ outcome = Returned("text1")
    /\ sleeps = <<10, 20>>
    /\ agentOutcome = Returned("text1")

\* ======================================================================
\* Progress (checked under SpecLive)
\* ======================================================================
\* C28: as long as every search request and every backend request returns
\* or fails, the search_multiple_topics call eventually returns and every
\* generate() call that was entered eventually ends in Succeeded or Failed.
C28_CallsTerminate ==
    /\ <>(spc = "returned")
    /\ (gpc \in {"Attempting", "Backoff"}) ~> Terminal
    /\ (ppc = "report") ~> (ppc = "html")
    /\ (ppc = "html") ~> (ppc = "returned")

C28_Witness ==
    /\ ppc = "returned"
    /\ spc = "returned"
    /\ Len(searchLog) = 2
    /\ ~searchLog[1].ok
    /\ genLog # <<>>
    /\ genLog[1].requests = 3
    /\ ExhaustedCall(genLog[1].outcome)
    /\ gpc = "Succeeded"
    /\ requests = 3

\* C29: in basic mode runPipeline posts no backend request and never calls
\* the delivery sink, even with email configured; its reports are the basic
\* text and HTML reports of the aggregated articles, saved when saveLocal is
\* set, and the run returns success = true (unless writing the files fails).
NoCredentials == config.githubToken = ""

C29_BasicModeNoBackendNoDelivery ==
    NoCredentials =>
        /\ requests = 0 /\ responses = <<>> /\ genLog = <<>> /\ gpc = "idle"
        /\ sent = <<>>
        /\ ppc \in {"gather", "save", "returned"}
        /\ raisedAt \in {"none", "save"}
        /\ ppc \in {"save", "returned"} =>
              /\ rawArticles = all_results
              /\ textReport = BasicReport(all_results)
              /\ htmlReport = BasicHtml(all_results)
        /\ (ppc = "returned" /\ raisedAt = "none") =>
              /\ results.success
              /\ "error" \notin DOMAIN results
              /\ IF saveLocal THEN BothSaved ELSE saved = <<>>

C29_Witness ==
    /\ NoCredentials
    /\ canSendEmail(config)
    /\ saveLocal
    /\ ppc = "returned"
    /\ results.success
    /\ Len(saved) = 2
    /\ sent = <<>>
    /\ requests = 0
    /\ \E c \in DOMAIN textReport.articles : textReport.articles[c] # <<>>

\* C30: the delivery stage never raises into runPipeline, and a run that
\* reached it with email configured ends with success = true and no error
\* message, whether or not the email went out.
C30_DeliveryOutcomeDoesNotFailRun ==
    /\ raisedAt # "deliver"
    /\ \A i \in 1..Len(sent) : sent[i].emailSent \in BOOLEAN
    /\ ( /\ ppc = "returned"
         /\ EmailSenderOf(config) # None
         /\ htmlReport # None
         /\ hasAiBackend(config)
         /\ raisedAt # "save" ) =>
           /\ results.success
           /\ "error" \notin DOMAIN results

====
